---- MODULE Spec2Model ----
(***************************************************************************)
(* A model of the ShellShock trainer: the control loop of main.rs          *)
(* (start_event_loop and its seven key handlers), the wind prompt, the     *)
(* coordinate translation, the trajectory simulator and the two           *)
(* exhaustive searches of math.rs, and the aggregation of print_hits.      *)
(*                                                                         *)
(* Representation of f64 values.                                           *)
(*  - pixel-space values (the result of scale_position and of the          *)
(*    translation) are records [k, v]: k = "fin" with v the value in       *)
(*    hundredths of a pixel, k = "inf" with v the sign, or k = "nan";      *)
(*  - wind strengths are integers;                                         *)
(*  - inside the simulator a length is an integer number of quarter        *)
(*    micrometres and a velocity is a length per simulation step, so that  *)
(*    `x * SIMULATION_DT` is absorbed in the unit;                          *)
(*  - a swept velocity is an integer number of tenths, a swept angle an    *)
(*    integer number of half degrees.                                      *)
(***************************************************************************)
EXTENDS Integers, Sequences, FiniteSets, TLC

VARIABLES
  mode,                  \* Mode::ANGLE or Mode::VELOCITY
  source,                \* Option<Cursor>: <<>> or <<cursor>>
  target,                \* Option<Cursor>
  current_wind_strength, \* f64, an integer here
  cached_rect,           \* Option<Rect>
  vk_state,              \* vk1_state .. vk7_state
  key_down,              \* vk1_key_down .. vk7_key_down of the current tick
  pc,                    \* 0: at the top of the loop; k: about to handle key k
  output,                \* what the handler that ran last printed or invoked
  spc,                   \* position inside a search and print_hits
  target_px,             \* the search's target_x_px, target_y_px
  wind_strength,         \* the search's wind_strength
  outer,                 \* the search's outer loop variable
  inner,                 \* the search's inner loop variable
  hits,                  \* the Vec<Hit> being built, returned or printed
  best,                  \* the "Top 5 Best" line of print_hits
  categories             \* the "Angle ~k" lines of print_hits, in print order

appVars == <<mode, source, target, current_wind_strength, cached_rect>>
loopVars == <<mode, source, target, current_wind_strength, cached_rect,
              vk_state, key_down, pc, output>>
searchVars == <<spc, target_px, wind_strength, outer, inner, hits>>
printVars == <<best, categories>>
vars == <<mode, source, target, current_wind_strength, cached_rect,
          vk_state, key_down, pc, output,
          spc, target_px, wind_strength, outer, inner, hits, best, categories>>

(***************************************************************************)
(* Bounds of the model.                                                    *)
(***************************************************************************)
\* at most this many of the seven keys are sampled pressed on one tick
MaxKeysDown == 2
\* the wind prompt reads at most this many console lines per call
MaxPromptLines == 2

(***************************************************************************)
(* Options, keys, modes.                                                   *)
(***************************************************************************)
None == <<>>
Some(v) == <<v>>

Keys == 1..7

Modes == {"ANGLE", "VELOCITY"}

Cursor(x, y) == [x |-> x, y |-> y]

Rect(width, height) == [width |-> width, height |-> height]

(***************************************************************************)
(* The platform collaborator: what the queries can return.                 *)
(***************************************************************************)
\* get_mouse_position_in_window
MousePositions == {Cursor(100, 200), Cursor(96, 189)}

\* get_window_rect: the client area, Rect(0, 0) on failure, and a
\* dimension clamped to 0
WindowRects == {Rect(1768, 992), Rect(0, 0), Rect(884, 0)}

\* is_key_pressed for the seven keys, read at the top of a tick
KeySamples ==
  {f \in [Keys -> BOOLEAN] : Cardinality({k \in Keys : f[k]}) <= MaxKeysDown}

(***************************************************************************)
(* f64 values of pixel space.                                              *)
(***************************************************************************)
Fin(v) == [k |-> "fin", v |-> v]
Inf(s) == [k |-> "inf", v |-> s]
NaN == [k |-> "nan", v |-> 0]

Sign(x) == IF x < 0 THEN -1 ELSE 1

Abs(x) == IF x < 0 THEN -x ELSE x

is_nan(a) == a.k = "nan"

is_finite(a) == a.k = "fin"

\* BASE_WINDOW_RESOLUTION.0 as f64 / window_width, times an integer n:
\* n * (base / dim), in hundredths of a pixel
Scaled(n, base, dim) ==
  IF dim = 0
  THEN (IF n = 0 THEN NaN ELSE Inf(Sign(n)))
  ELSE Fin((n * base * 100) \div dim)

\* a - b on f64
Sub(a, b) ==
  IF is_nan(a) \/ is_nan(b) THEN NaN
  ELSE IF a.k = "inf" /\ b.k = "inf"
       THEN (IF a.v = b.v THEN NaN ELSE a)
  ELSE IF a.k = "inf" THEN a
  ELSE IF b.k = "inf" THEN Inf(-b.v)
  ELSE Fin(a.v - b.v)

BASE_WINDOW_RESOLUTION == <<1768, 992>>

\* a variant of scale_position: y is not inverted, the origin stays at the
\* top left
scale_position_top_left(rect, cursor) ==
  LET window_width == rect.width
      window_height == rect.height
      cx == Scaled(cursor.x, BASE_WINDOW_RESOLUTION[1], window_width)
      cy == Scaled(cursor.y, BASE_WINDOW_RESOLUTION[2], window_height)
  IN <<cx, cy>>

scale_position(rect, cursor) ==
  LET window_width == rect.width
      window_height == rect.height
      cx == Scaled(cursor.x, BASE_WINDOW_RESOLUTION[1], window_width)
      cy == Scaled(window_height - cursor.y, BASE_WINDOW_RESOLUTION[2], window_height)
  IN <<cx, cy>>

translate_target_position_relativ_to_origin(rect, from, to) ==
  LET from_scaled == scale_position(rect, from)
      to_scaled == scale_position(rect, to)
      x_px == Sub(to_scaled[1], from_scaled[1])
      y_px == Sub(to_scaled[2], from_scaled[2])
  IN <<x_px, y_px>>

(***************************************************************************)
(* The wind prompt.  A console line is a number, text that does not parse, *)
(* the text "NaN" (which parses to a NaN), or a failed read.               *)
(***************************************************************************)
Num(n) == [t |-> "num", v |-> n]
Junk == [t |-> "junk", v |-> 0]
NanText == [t |-> "nan", v |-> 0]
ReadError == [t |-> "ioerr", v |-> 0]

ConsoleLines == {Num(-101), Num(-100), Num(100), Num(101), Junk, NanText, ReadError}

\* a variant of WindInRange: only the upper end of the range is tested
WindInRange_upper(wind) == wind <= 100

\* (-100.0..=100.0).contains(&wind)
WindInRange(wind) == -100 <= wind /\ wind <= 100

\* the line makes get_wind_input return
Returns(line) ==
  \/ line.t = "ioerr"
  \/ line.t = "num" /\ WindInRange(line.v)

\* the console inputs of one call: the lines read up to the one that returns
PromptInputs ==
  UNION {{ls \in [1..n -> ConsoleLines] :
            /\ Returns(ls[n])
            /\ \A i \in 1..(n - 1) : ~Returns(ls[i])} : n \in 1..MaxPromptLines}

RECURSIVE get_wind_input(_)
get_wind_input(lines) ==
  LET input == Head(lines)
  IN IF input.t = "ioerr" THEN 0
     ELSE IF input.t = "num" /\ WindInRange(input.v) THEN input.v
     ELSE get_wind_input(Tail(lines))

(***************************************************************************)
(* The control loop.                                                       *)
(***************************************************************************)
\* what a handler printed: the key, the message, and for Calculate the
\* arguments of the search it invoked, for Cache the extent it queried,
\* for the wind prompt the number of lines it read
Out(key, what, search, rect, lines) ==
  [key |-> key, what |-> what, search |-> search, rect |-> rect, lines |-> lines]

Quiet(key) == Out(key, "none", None, None, 0)

\* a variant of RisingEdge: the stored state is not consulted
RisingEdge_level(down, state) == down

\* vkN_key_down && !vkN_state
RisingEdge(down, state) == down /\ ~state

\* the else-if of every handler: the stored state after a tick without an edge
Released(k) == IF ~key_down[k] THEN [vk_state EXCEPT ![k] = FALSE] ELSE vk_state

LoopInit ==
  /\ mode = "VELOCITY"
  /\ source = None
  /\ target = None
  /\ current_wind_strength = 0
  /\ cached_rect = None
  /\ vk_state = [k \in Keys |-> FALSE]
  /\ key_down = [k \in Keys |-> FALSE]
  /\ pc = 0
  /\ output = Quiet(0)

IdleSearch ==
  /\ spc = "idle"
  /\ target_px = <<Fin(0), Fin(0)>>
  /\ wind_strength = 0
  /\ outer = 0
  /\ inner = 0
  /\ hits = <<>>
  /\ best = <<>>
  /\ categories = <<>>

Init == LoopInit /\ IdleSearch

\* thread::sleep and the seven is_key_pressed reads
Sample ==
  /\ pc = 0
  /\ key_down' \in KeySamples
  /\ pc' = 1
  /\ output' = Quiet(0)
  /\ UNCHANGED <<appVars, vk_state, searchVars, printVars>>

\* Key 1: Set source position
Key1 ==
  /\ pc = 1
  /\ pc' = 2
  /\ IF RisingEdge(key_down[1], vk_state[1])
     THEN /\ vk_state' = [vk_state EXCEPT ![1] = TRUE]
          /\ \E position \in MousePositions : source' = Some(position)
          /\ output' = Out(1, "source", None, None, 0)
     ELSE /\ vk_state' = Released(1)
          /\ source' = source
          /\ output' = Quiet(1)
  /\ UNCHANGED <<mode, target, current_wind_strength, cached_rect, key_down,
                 searchVars, printVars>>

\* Key 2: Set target position
Key2 ==
  /\ pc = 2
  /\ pc' = 3
  /\ IF RisingEdge(key_down[2], vk_state[2])
     THEN /\ vk_state' = [vk_state EXCEPT ![2] = TRUE]
          /\ \E position \in MousePositions : target' = Some(position)
          /\ output' = Out(2, "target", None, None, 0)
     ELSE /\ vk_state' = Released(2)
          /\ target' = target
          /\ output' = Quiet(2)
  /\ UNCHANGED <<mode, source, current_wind_strength, cached_rect, key_down,
                 searchVars, printVars>>

\* Key 3: Get/Set Wind Input
Key3 ==
  /\ pc = 3
  /\ pc' = 4
  /\ IF RisingEdge(key_down[3], vk_state[3])
     THEN /\ vk_state' = [vk_state EXCEPT ![3] = TRUE]
          /\ \E lines \in PromptInputs :
               /\ current_wind_strength' = get_wind_input(lines)
               /\ output' = Out(3, "wind", None, None, Len(lines))
     ELSE /\ vk_state' = Released(3)
          /\ current_wind_strength' = current_wind_strength
          /\ output' = Quiet(3)
  /\ UNCHANGED <<mode, source, target, cached_rect, key_down,
                 searchVars, printVars>>

\* if let (Some(from), Some(to), Some(ref rect)) = (&source, &target, &cached_rect)
Prerequisites(src, tgt, rect) == src # None /\ tgt # None /\ rect # None

\* the arguments of the search Calculate invokes
SearchCall(pos, wind, m, rect) ==
  [target_pos_pixels |-> pos, wind_strength |-> wind, mode |-> m, rect |-> rect]

\* a variant of Calculate: without a cached extent the base resolution is
\* used
Calculate_fallback(src, tgt, rect, wind, m) ==
  IF src # None /\ tgt # None
  THEN LET r == IF rect = None
                THEN Rect(BASE_WINDOW_RESOLUTION[1], BASE_WINDOW_RESOLUTION[2])
                ELSE rect[1]
           target_pos_pixels ==
             translate_target_position_relativ_to_origin(r, src[1], tgt[1])
       IN IF is_nan(target_pos_pixels[1]) \/ is_nan(target_pos_pixels[2])
          THEN Out(4, "error-nan", None, None, 0)
          ELSE Out(4, "search", Some(SearchCall(target_pos_pixels, wind, m, r)), None, 0)
  ELSE Out(4, "warn", None, None, 0)

\* the body of the Key 4 handler: what it prints and invokes
Calculate(src, tgt, rect, wind, m) ==
  IF Prerequisites(src, tgt, rect)
  THEN LET target_pos_pixels ==
             translate_target_position_relativ_to_origin(rect[1], src[1], tgt[1])
       IN IF is_nan(target_pos_pixels[1]) \/ is_nan(target_pos_pixels[2])
          THEN Out(4, "error-nan", None, None, 0)
          ELSE Out(4, "search", Some(SearchCall(target_pos_pixels, wind, m, rect[1])),
                   None, 0)
  ELSE Out(4, "warn", None, None, 0)

\* a variant of Key4: a Clear of the same tick is handled before the
\* calculation
Key4_after_clear ==
  /\ pc = 4
  /\ pc' = 5
  /\ IF RisingEdge(key_down[4], vk_state[4])
     THEN /\ vk_state' = [vk_state EXCEPT ![4] = TRUE]
          /\ output' = IF RisingEdge(key_down[5], vk_state[5])
                       THEN Calculate(None, None, cached_rect, 0, mode)
                       ELSE Calculate(source, target, cached_rect,
                                      current_wind_strength, mode)
     ELSE /\ vk_state' = Released(4)
          /\ output' = Quiet(4)
  /\ UNCHANGED <<appVars, key_down, searchVars, printVars>>

\* Key 4: Calculate Hits
Key4 ==
  /\ pc = 4
  /\ pc' = 5
  /\ IF RisingEdge(key_down[4], vk_state[4])
     THEN /\ vk_state' = [vk_state EXCEPT ![4] = TRUE]
          /\ output' = Calculate(source, target, cached_rect, current_wind_strength, mode)
     ELSE /\ vk_state' = Released(4)
          /\ output' = Quiet(4)
  /\ UNCHANGED <<appVars, key_down, searchVars, printVars>>

\* a variant of Key5: Clear forgets the cached extent as well
Key5_clears_extent ==
  /\ pc = 5
  /\ pc' = 6
  /\ IF RisingEdge(key_down[5], vk_state[5])
     THEN /\ vk_state' = [vk_state EXCEPT ![5] = TRUE]
          /\ source' = None
          /\ target' = None
          /\ current_wind_strength' = 0
          /\ cached_rect' = None
          /\ output' = Out(5, "cleared", None, None, 0)
     ELSE /\ vk_state' = Released(5)
          /\ UNCHANGED <<source, target, current_wind_strength, cached_rect>>
          /\ output' = Quiet(5)
  /\ UNCHANGED <<mode, key_down, searchVars, printVars>>

\* Key 5: Clear Positions and Wind
Key5 ==
  /\ pc = 5
  /\ pc' = 6
  /\ IF RisingEdge(key_down[5], vk_state[5])
     THEN /\ vk_state' = [vk_state EXCEPT ![5] = TRUE]
          /\ source' = None
          /\ target' = None
          /\ current_wind_strength' = 0
          /\ output' = Out(5, "cleared", None, None, 0)
     ELSE /\ vk_state' = Released(5)
          /\ UNCHANGED <<source, target, current_wind_strength>>
          /\ output' = Quiet(5)
  /\ UNCHANGED <<mode, cached_rect, key_down, searchVars, printVars>>

\* Key 6: Switch calculation mode
Key6 ==
  /\ pc = 6
  /\ pc' = 7
  /\ IF RisingEdge(key_down[6], vk_state[6])
     THEN /\ vk_state' = [vk_state EXCEPT ![6] = TRUE]
          /\ mode' = (IF mode = "ANGLE" THEN "VELOCITY" ELSE "ANGLE")
          /\ output' = Out(6, "mode", None, None, 0)
     ELSE /\ vk_state' = Released(6)
          /\ mode' = mode
          /\ output' = Quiet(6)
  /\ UNCHANGED <<source, target, current_wind_strength, cached_rect, key_down,
                 searchVars, printVars>>

\* a variant of ValidDimensions: a dimension of zero is accepted
ValidDimensions_nonnegative(rect) == rect.width >= 0 /\ rect.height >= 0

\* current_rect.get_width() > 0 && current_rect.get_height() > 0
ValidDimensions(rect) == rect.width > 0 /\ rect.height > 0

\* Key 7: Cache Game Window Dimensions
Key7 ==
  /\ pc = 7
  /\ pc' = 0
  /\ IF RisingEdge(key_down[7], vk_state[7])
     THEN /\ vk_state' = [vk_state EXCEPT ![7] = TRUE]
          /\ \E current_rect \in WindowRects :
               IF ValidDimensions(current_rect)
               THEN /\ cached_rect' = Some(current_rect)
                    /\ output' = Out(7, "cached", None, Some(current_rect), 0)
               ELSE /\ cached_rect' = None
                    /\ output' = Out(7, "cache-failed", None, Some(current_rect), 0)
     ELSE /\ vk_state' = Released(7)
          /\ cached_rect' = cached_rect
          /\ output' = Quiet(7)
  /\ UNCHANGED <<mode, source, target, current_wind_strength, key_down,
                 searchVars, printVars>>


(***************************************************************************)
(* The trajectory simulator.                                               *)
(***************************************************************************)
\* the velocity sweep of the model ends here (the code sweeps to 100)
MaxVelocity == 9

MaxAngle == 90

SIMULATION_MAX_STEPS == 2000

HIT_TOLERANCE_PX == 3

TERMINATION_Y_BUFFER_PX == 10

\* 100000 * cos of 0, 0.5, 1, ..., 90 degrees
COS_TABLE ==
  <<
    100000, 99996, 99985, 99966, 99939, 99905, 99863, 99813, 99756, 99692, 99619, 99540,
    99452, 99357, 99255, 99144, 99027, 98902, 98769, 98629, 98481, 98325, 98163, 97992,
    97815, 97630, 97437, 97237, 97030, 96815, 96593, 96363, 96126, 95882, 95630, 95372,
    95106, 94832, 94552, 94264, 93969, 93667, 93358, 93042, 92718, 92388, 92050, 91706,
    91355, 90996, 90631, 90259, 89879, 89493, 89101, 88701, 88295, 87882, 87462, 87036,
    86603, 86163, 85717, 85264, 84805, 84339, 83867, 83389, 82904, 82413, 81915, 81412,
    80902, 80386, 79864, 79335, 78801, 78261, 77715, 77162, 76604, 76041, 75471, 74896,
    74314, 73728, 73135, 72537, 71934, 71325, 70711, 70091, 69466, 68835, 68200, 67559,
    66913, 66262, 65606, 64945, 64279, 63608, 62932, 62251, 61566, 60876, 60182, 59482,
    58779, 58070, 57358, 56641, 55919, 55194, 54464, 53730, 52992, 52250, 51504, 50754,
    50000, 49242, 48481, 47716, 46947, 46175, 45399, 44620, 43837, 43051, 42262, 41469,
    40674, 39875, 39073, 38268, 37461, 36650, 35837, 35021, 34202, 33381, 32557, 31730,
    30902, 30071, 29237, 28402, 27564, 26724, 25882, 25038, 24192, 23345, 22495, 21644,
    20791, 19937, 19081, 18224, 17365, 16505, 15643, 14781, 13917, 13053, 12187, 11320,
    10453, 9585, 8716, 7846, 6976, 6105, 5234, 4362, 3490, 2618, 1745, 873,
    0
  >>

\* angle_rad.cos() and angle_rad.sin() of an angle in half degrees, times 100000
Cos(a2) == COS_TABLE[Abs(a2) + 1]

Sin(a2) == Sign(a2) * COS_TABLE[181 - Abs(a2)]

\* px / BASE_METER_2_PIXEL: hundredths of a pixel to quarter micrometres
\* (one hundredth of a pixel is 17613.386 of them)
PxToLen(c) == c * 17613 + (c * 386) \div 1000

\* GRAVITY_MPSS * SIMULATION_DT, as a length per step per step
GravityPerStep == 3924

\* wind_strength * WIND_SCALING_FACTOR * SIMULATION_DT, likewise
WindPerStep(wind) == wind * 5

\* initial_velocity_mps * cos (or sin), as a length per step, of a velocity
\* in tenths: one tenth of a m/s is 4000 quarter micrometres per step
VelocityComponent(v10, c) == Sign(c) * ((v10 * Abs(c)) \div 25)

\* hit_tolerance_m.powi(2), in units of 1024 * 1024 squared quarter micrometres
HitToleranceSq == 26627372

\* dist_sq_m < hit_tolerance_m.powi(2); the squares are taken of the
\* distances divided by 1024, and only when both are below the tolerance
WithinTolerance(ex, ey) ==
  /\ ex <= PxToLen(HIT_TOLERANCE_PX * 100)
  /\ ey <= PxToLen(HIT_TOLERANCE_PX * 100)
  /\ (ex \div 1024) * (ex \div 1024) + (ey \div 1024) * (ey \div 1024) < HitToleranceSq

\* the state of the for loop of simulate_trajectory: the four mutable
\* locals, whether the function has returned, and what it returned
SimState(vel_x, vel_y, pos_x, pos_y, returned, hit) ==
  [vel_x |-> vel_x, vel_y |-> vel_y, pos_x |-> pos_x, pos_y |-> pos_y,
   returned |-> returned, hit |-> hit]

\* the body of the for loop: one step of the simulation
SimulationStep(s, target_x, target_y, wind_accel) ==
  LET vx == s.vel_x + wind_accel
      vy == s.vel_y - GravityPerStep
      px == s.pos_x + vx
      py == s.pos_y + vy
  IN IF WithinTolerance(Abs(px - target_x), Abs(py - target_y))
     THEN SimState(vx, vy, px, py, TRUE, TRUE)
     ELSE IF py < target_y - PxToLen(TERMINATION_Y_BUFFER_PX * 100) /\ vy < 0
          THEN SimState(vx, vy, px, py, TRUE, FALSE)
     ELSE SimState(vx, vy, px, py, FALSE, FALSE)

\* n iterations of the for loop, unless the function returns before:
\* the first half of them, then the other half
RECURSIVE RunSteps(_, _, _, _, _)
RunSteps(s, n, target_x, target_y, wind_accel) ==
  IF s.returned \/ n = 0 THEN s
  ELSE IF n = 1 THEN SimulationStep(s, target_x, target_y, wind_accel)
  ELSE LET half == RunSteps(s, n \div 2, target_x, target_y, wind_accel)
       IN RunSteps(half, n - n \div 2, target_x, target_y, wind_accel)

\* v10: the velocity in tenths; a2: the angle in half degrees;
\* target_x_px, target_y_px: hundredths of a pixel.  When the loop ends
\* without a return the result is a miss.
simulate_trajectory(v10, a2, target_x_px, target_y_px, wind) ==
  LET target_x == PxToLen(target_x_px)
      target_y == PxToLen(target_y_px)
      direction_sign == IF target_x = 0 THEN 1 ELSE Sign(target_x)
      vel_x == VelocityComponent(v10, Cos(a2)) * direction_sign
      vel_y == VelocityComponent(v10, Sin(a2))
      start == SimState(vel_x, vel_y, 0, 0, FALSE, FALSE)
  IN RunSteps(start, SIMULATION_MAX_STEPS, target_x, target_y, WindPerStep(wind)).hit

(***************************************************************************)
(* Hits and sorting.                                                       *)
(***************************************************************************)
Hit(velocity, angle) == [velocity |-> velocity, angle |-> angle]

Cmp(a, b) == IF a < b THEN -1 ELSE IF a > b THEN 1 ELSE 0

\* a.angle.cmp(&b.angle).then(a.velocity.cmp(&b.velocity))
CmpAngleVelocity(a, b) ==
  IF Cmp(a.angle, b.angle) # 0 THEN Cmp(a.angle, b.angle)
  ELSE Cmp(a.velocity, b.velocity)

\* a.velocity.cmp(&b.velocity).then(a.angle.cmp(&b.angle))
CmpVelocityAngle(a, b) ==
  IF Cmp(a.velocity, b.velocity) # 0 THEN Cmp(a.velocity, b.velocity)
  ELSE Cmp(a.angle, b.angle)

\* a.get_velocity().cmp(&b.get_velocity())
CmpVelocity(a, b) == Cmp(a.velocity, b.velocity)

Compare(order, a, b) ==
  CASE order = "angle-velocity" -> CmpAngleVelocity(a, b)
    [] order = "velocity-angle" -> CmpVelocityAngle(a, b)
    [] order = "velocity" -> CmpVelocity(a, b)

\* h placed behind every element of the sorted s that is not greater
RECURSIVE InsertSorted(_, _, _)
InsertSorted(s, h, order) ==
  IF s = <<>> THEN <<h>>
  ELSE IF Compare(order, s[Len(s)], h) <= 0 THEN Append(s, h)
  ELSE Append(InsertSorted(SubSeq(s, 1, Len(s) - 1), h, order), s[Len(s)])

\* Vec::sort_by, a stable sort
RECURSIVE sort_by(_, _)
sort_by(s, order) ==
  IF s = <<>> THEN <<>>
  ELSE InsertSorted(sort_by(SubSeq(s, 1, Len(s) - 1), order), s[Len(s)], order)

(***************************************************************************)
(* The two searches.                                                       *)
(***************************************************************************)
\* a variant of RoundAngle: the swept value is stored without rounding it
\* to degrees
RoundAngle_unrounded(a2) == a2

\* angle_deg.round() of an angle in half degrees: halves round away from zero
RoundAngle(a2) == Sign(a2) * ((Abs(a2) + 1) \div 2)

\* the f64 sum 1.0 + 0.1 + ... + 0.1 lies just below these halves
\* (5.5 .. 18.5 and 75.5 .. 99.5) and just above the other ones
SumBelowHalf(v10) ==
  /\ v10 % 10 = 5
  /\ (55 <= v10 /\ v10 <= 185) \/ (755 <= v10 /\ v10 <= 995)

\* v_mps.round() as u32 of the swept velocity, in tenths
RoundVelocity(v10) == IF SumBelowHalf(v10) THEN v10 \div 10 ELSE (v10 + 5) \div 10

\* (1..=100).contains(&rounded_v)
VelocityInRange(rounded_v) == 1 <= rounded_v /\ rounded_v <= 100

\* a variant of NotLastHit: no comparison with the last hit
NotLastHit_unchecked(hs, rounded_v, angle_deg) == TRUE

\* hits.last().map_or(true, |last_hit| last_hit.angle != angle_deg
\*                                   || last_hit.velocity != rounded_v)
NotLastHit(hs, rounded_v, angle_deg) ==
  \/ hs = <<>>
  \/ hs[Len(hs)].angle # angle_deg
  \/ hs[Len(hs)].velocity # rounded_v

\* a variant of AngleHits: a hit equal to the last one recorded is dropped,
\* as the velocity enumeration does
AngleHits_deduplicated(hs, v, a2, tx, ty, wind) ==
  IF /\ simulate_trajectory(v * 10, a2, tx, ty, wind)
     /\ NotLastHit(hs, v, RoundAngle(a2))
  THEN Append(hs, Hit(v, RoundAngle(a2)))
  ELSE hs

\* the body of the while loop of calc_launch_angles_with_wind
AngleHits(hs, v, a2, tx, ty, wind) ==
  IF simulate_trajectory(v * 10, a2, tx, ty, wind)
  THEN Append(hs, Hit(v, RoundAngle(a2)))
  ELSE hs

\* a variant of VelocityHits: the new hit is compared with the first hit of
\* the Vec (hits.first()), not with the last one
VelocityHits_first_compared(hs, angle_deg, v10, tx, ty, wind) ==
  IF /\ simulate_trajectory(v10, 2 * angle_deg, tx, ty, wind)
     /\ VelocityInRange(RoundVelocity(v10))
     /\ NotLastHit(IF hs = <<>> THEN hs ELSE <<hs[1]>>, RoundVelocity(v10), angle_deg)
  THEN Append(hs, Hit(RoundVelocity(v10), angle_deg))
  ELSE hs

\* the body of the while loop of calc_launch_velocities_with_wind
VelocityHits(hs, angle_deg, v10, tx, ty, wind) ==
  IF /\ simulate_trajectory(v10, 2 * angle_deg, tx, ty, wind)
     /\ VelocityInRange(RoundVelocity(v10))
     /\ NotLastHit(hs, RoundVelocity(v10), angle_deg)
  THEN Append(hs, Hit(RoundVelocity(v10), angle_deg))
  ELSE hs

\* one iteration of the inner loop of calc_launch_angles_with_wind:
\* outer is v, inner is angle_deg in half degrees
AngleStep ==
  /\ spc = "angles"
  /\ outer <= MaxVelocity
  /\ hits' = AngleHits(hits, outer, inner, target_px[1].v, target_px[2].v, wind_strength)
  /\ IF inner + 1 <= 2 * MaxAngle
     THEN inner' = inner + 1 /\ outer' = outer
     ELSE inner' = -2 * MaxAngle /\ outer' = outer + 1
  /\ UNCHANGED <<spc, target_px, wind_strength, loopVars, printVars>>

\* the sort and return of calc_launch_angles_with_wind
AngleSort ==
  /\ spc = "angles"
  /\ outer > MaxVelocity
  /\ hits' = sort_by(hits, "angle-velocity")
  /\ spc' = "returned"
  /\ UNCHANGED <<target_px, wind_strength, outer, inner, loopVars, printVars>>

\* one iteration of the inner loop of calc_launch_velocities_with_wind:
\* outer is angle_deg, inner is v_mps in tenths
VelocityStep ==
  /\ spc = "velocities"
  /\ outer <= MaxAngle
  /\ hits' = VelocityHits(hits, outer, inner, target_px[1].v, target_px[2].v, wind_strength)
  /\ IF inner + 1 <= 10 * MaxVelocity
     THEN inner' = inner + 1 /\ outer' = outer
     ELSE inner' = 10 /\ outer' = outer + 1
  /\ UNCHANGED <<spc, target_px, wind_strength, loopVars, printVars>>

\* the sort and return of calc_launch_velocities_with_wind
VelocitySort ==
  /\ spc = "velocities"
  /\ outer > MaxAngle
  /\ hits' = sort_by(hits, "velocity-angle")
  /\ spc' = "returned"
  /\ UNCHANGED <<target_px, wind_strength, outer, inner, loopVars, printVars>>

(***************************************************************************)
(* print_hits and into_angle_categories.                                   *)
(***************************************************************************)
SHOW_MAX_HITS == 5

\* iter().take(n) and Vec::truncate(n)
Take(s, n) == IF Len(s) > n THEN SubSeq(s, 1, n) ELSE s

\* a variant of Category: the quotient is truncated towards zero, as the
\* integer division angle / 10 * 10 does
Category_truncated(angle) == Sign(angle) * (Abs(angle) \div 10) * 10

\* (angle as f64 / 10.0).floor() as i32 * 10
Category(angle) == (angle \div 10) * 10

\* the keys of the BTreeMap after the for loop
CategoryKeys(hs) == {Category(hs[i].angle) : i \in DOMAIN hs}

IsCategory(h, category) == Category(h.angle) = category

\* map.entry(category).or_insert_with(Vec::new).push(hit), for every hit
CategoryEntry(hs, category) == SelectSeq(hs, LAMBDA h : IsCategory(h, category))

\* a variant of SortTruncate: the list is cut before it is sorted
SortTruncate_cut_first(hits_in_category) ==
  sort_by(Take(hits_in_category, SHOW_MAX_HITS), "velocity")

\* the body of the loop over map.values_mut()
SortTruncate(hits_in_category) ==
  Take(sort_by(hits_in_category, "velocity"), SHOW_MAX_HITS)

Min(S) == CHOOSE x \in S : \A y \in S : x <= y

\* the entries of the BTreeMap in iteration order: ascending keys
RECURSIVE Entries(_, _)
Entries(keys, hs) ==
  IF keys = {} THEN <<>>
  ELSE LET category == Min(keys)
       IN <<[category |-> category,
             hits |-> SortTruncate(CategoryEntry(hs, category))]>>
          \o Entries(keys \ {category}, hs)

into_angle_categories(hs) == Entries(CategoryKeys(hs), hs)

\* a variant of SortedHits: the order in which the search returned the hits
\* is kept
SortedHits_native(hs) == hs

\* sorted_hits of print_hits
SortedHits(hs) == sort_by(hs, "angle-velocity")

\* the "Top 5 Best" line
BestLine(hs) == Take(SortedHits(hs), SHOW_MAX_HITS)

\* the "Angle ~k" lines: every category with its hits sorted once more
CategoryLines(hs) ==
  LET cats == into_angle_categories(SortedHits(hs))
  IN [i \in DOMAIN cats |->
        [category |-> cats[i].category,
         hits |-> sort_by(cats[i].hits, "velocity")]]

\* print_hits(hits), called when the search returned a non-empty Vec
PrintHits ==
  /\ spc = "returned"
  /\ hits # <<>>
  /\ best' = BestLine(hits)
  /\ categories' = CategoryLines(hits)
  /\ spc' = "printed"
  /\ UNCHANGED <<target_px, wind_strength, outer, inner, hits, loopVars>>

(***************************************************************************)
(* The control loop: a search is an invocation recorded in `output`.       *)
(***************************************************************************)
Next == Sample \/ Key1 \/ Key2 \/ Key3 \/ Key4 \/ Key5 \/ Key6 \/ Key7

Spec == Init /\ [][Next]_vars

(***************************************************************************)
(* A search, from the state in which Calculate invokes it: source, target  *)
(* and extent are set, and the search runs to its return and is printed.   *)
(***************************************************************************)
SearchSource == Cursor(100, 200)

SearchTarget == Cursor(96, 189)

SearchRect == Rect(1768, 992)

SearchWinds == {-100}

SearchInit ==
  /\ mode \in Modes
  /\ source = Some(SearchSource)
  /\ target = Some(SearchTarget)
  /\ current_wind_strength \in SearchWinds
  /\ cached_rect = Some(SearchRect)
  /\ vk_state = [k \in Keys |-> k = 4]
  /\ key_down = [k \in Keys |-> k = 4]
  /\ pc = 5
  /\ output = Calculate(source, target, cached_rect, current_wind_strength, mode)
  /\ spc = (IF mode = "ANGLE" THEN "angles" ELSE "velocities")
  /\ target_px = output.search[1].target_pos_pixels
  /\ wind_strength = output.search[1].wind_strength
  /\ outer = (IF mode = "ANGLE" THEN 1 ELSE -MaxAngle)
  /\ inner = (IF mode = "ANGLE" THEN -2 * MaxAngle ELSE 10)
  /\ hits = <<>>
  /\ best = <<>>
  /\ categories = <<>>

SearchNext == AngleStep \/ AngleSort \/ VelocityStep \/ VelocitySort \/ PrintHits

SearchSpec == SearchInit /\ [][SearchNext]_vars

(***************************************************************************)
(* print_hits on an arbitrary Vec<Hit>.                                    *)
(***************************************************************************)
\* the Vecs handed to print_hits have at most this many hits
MaxHits == 7

AggHits == {Hit(1, -1), Hit(2, -5), Hit(3, -9), Hit(2, 15)}

AggInit ==
  /\ LoopInit
  /\ spc = "collect"
  /\ target_px = <<Fin(0), Fin(0)>>
  /\ wind_strength = 0
  /\ outer = 0
  /\ inner = 0
  /\ hits = <<>>
  /\ best = <<>>
  /\ categories = <<>>

\* one more Hit of the Vec
AddHit ==
  /\ spc = "collect"
  /\ Len(hits) < MaxHits
  /\ \E h \in AggHits : hits' = Append(hits, h)
  /\ UNCHANGED <<spc, target_px, wind_strength, outer, inner, loopVars, printVars>>

\* the Vec is returned to the Key 4 handler
Deliver ==
  /\ spc = "collect"
  /\ spc' = "returned"
  /\ UNCHANGED <<target_px, wind_strength, outer, inner, hits, loopVars, printVars>>

AggNext == AddHit \/ Deliver \/ PrintHits

AggSpec == AggInit /\ [][AggNext]_vars

(***************************************************************************)
(* print_hits on one Hit of every angle.                                   *)
(***************************************************************************)
BucketInit ==
  /\ LoopInit
  /\ spc = "collect"
  /\ target_px = <<Fin(0), Fin(0)>>
  /\ wind_strength = 0
  /\ outer = 0
  /\ inner = 0
  /\ hits \in {<<Hit(v, a)>> : v \in {1, 100}, a \in (-MaxAngle)..MaxAngle}
  /\ best = <<>>
  /\ categories = <<>>

BucketNext == Deliver \/ PrintHits

BucketSpec == BucketInit /\ [][BucketNext]_vars

(***************************************************************************)
(* The translation on its own: Calculate's call of                         *)
(* translate_target_position_relativ_to_origin for an extent and two       *)
(* screen points.                                                          *)
(***************************************************************************)
TranslatePoints == {Cursor(x, y) : x \in {0, 7, 100}, y \in {0, 13, 100}}

TranslateRects ==
  {Rect(884, 496), Rect(1768, 992), Rect(1920, 1080), Rect(3, 7), Rect(884, 0)}

TranslateInit ==
  /\ mode = "VELOCITY"
  /\ source \in {Some(p) : p \in TranslatePoints}
  /\ target \in {Some(p) : p \in TranslatePoints}
  /\ current_wind_strength = 0
  /\ cached_rect \in {Some(r) : r \in TranslateRects}
  /\ vk_state = [k \in Keys |-> k = 4]
  /\ key_down = [k \in Keys |-> k = 4]
  /\ pc = 4
  /\ output = Quiet(3)
  /\ spc = "translate"
  /\ target_px = <<Fin(0), Fin(0)>>
  /\ wind_strength = 0
  /\ outer = 0
  /\ inner = 0
  /\ hits = <<>>
  /\ best = <<>>
  /\ categories = <<>>

\* let target_pos_pixels = translate_target_position_relativ_to_origin(rect, from, to)
Translate ==
  /\ spc = "translate"
  /\ target_px' = translate_target_position_relativ_to_origin(
                    cached_rect[1], source[1], target[1])
  /\ spc' = "translated"
  /\ UNCHANGED <<wind_strength, outer, inner, hits, loopVars, printVars>>

TranslateNext == Translate

TranslateSpec == TranslateInit /\ [][TranslateNext]_vars
(***************************************************************************)
(* Properties of the searches (SearchSpec).                                *)
(***************************************************************************)
\* how often the Solution h occurs in the sequence s
Count(s, h) == Cardinality({i \in DOMAIN s : s[i] = h})

Returned == spc \in {"returned", "printed"}

\* simulate(v, a, dx, dy, wind) of a returned Solution
SimulatesAsHit(h) ==
  simulate_trajectory(h.velocity * 10, h.angle * 2,
                      target_px[1].v, target_px[2].v, wind_strength)

\* C1: every Solution (v, a) a search returns is itself a hit: simulating
\* the returned integer velocity and angle for the same target and wind
\* reports a hit.
C1_ReturnedSolutionsHit ==
  spc = "returned" => \A i \in DOMAIN hits : SimulatesAsHit(hits[i])

\* C2: the sequence velocity enumeration returns, after its sort by velocity
\* then angle, has no two adjacent Solutions with the same angle and the
\* same rounded velocity.
C2_NoAdjacentDuplicates ==
  (mode = "VELOCITY" /\ Returned) =>
    \A i \in 1..(Len(hits) - 1) :
      ~(hits[i].angle = hits[i + 1].angle /\ hits[i].velocity = hits[i + 1].velocity)

\* velocity enumeration has returned Solutions of which two share an angle
\* and two are adjacent with the same velocity
C2_Witness ==
  /\ mode = "VELOCITY"
  /\ spc = "returned"
  /\ \E i, j \in DOMAIN hits : i # j /\ hits[i].angle = hits[j].angle
  /\ \E i \in 1..(Len(hits) - 1) : hits[i].velocity = hits[i + 1].velocity

\* C3: every Solution either search produces lies in the search ranges:
\* its velocity is an integer from 1 to the end of the velocity sweep (at
\* most 100) and its angle an integer from -90 to 90, roundings at the ends
\* of the sweeps included.
C3_SolutionsInRange ==
  /\ MaxVelocity <= 100
  /\ \A i \in DOMAIN hits :
       /\ 1 <= hits[i].velocity /\ hits[i].velocity <= MaxVelocity
       /\ -90 <= hits[i].angle /\ hits[i].angle <= 90

\* angle enumeration has returned a Solution whose angle is the rounding of
\* 89.5 to the end of the range
C3_Witness ==
  /\ mode = "ANGLE"
  /\ spc = "returned"
  /\ \E i \in DOMAIN hits : hits[i].angle = 90
  /\ ~simulate_trajectory(hits[Len(hits)].velocity * 10, 180,
                          target_px[1].v, target_px[2].v, wind_strength)

\* the swept grid of the angle enumeration: velocity, angle in half degrees
AngleGrid == (1..MaxVelocity) \X ((-2 * MaxAngle)..(2 * MaxAngle))

\* the grid points for which the simulator reports a hit
HittingGrid ==
  {g \in AngleGrid :
     simulate_trajectory(g[1] * 10, g[2], target_px[1].v, target_px[2].v, wind_strength)}

\* C12: the angle enumeration records every hit of the whole grid, without
\* short-circuit and without deduplication: there are 361 swept angles per
\* velocity, the output holds one Solution (velocity, rounded angle) per
\* hitting grid point and nothing else, so its length is the number of
\* hitting grid points and a pair occurs as often as grid points round to it.
C12_AngleGridRecorded ==
  (mode = "ANGLE" /\ spc = "returned") =>
    LET hitting == HittingGrid
    IN /\ Cardinality((-2 * MaxAngle)..(2 * MaxAngle)) = 361
       /\ Len(hits) = Cardinality(hitting)
       /\ \A v \in 1..MaxVelocity, angle \in (-MaxAngle)..MaxAngle :
            Count(hits, Hit(v, angle))
              = Cardinality({g \in hitting : g[1] = v /\ RoundAngle(g[2]) = angle})

\* the angle enumeration has returned the same pair twice, and two
\* Solutions of one velocity
C12_Witness ==
  /\ mode = "ANGLE"
  /\ spc = "returned"
  /\ \E i, j \in DOMAIN hits : i # j /\ hits[i] = hits[j]
  /\ \E i, j \in DOMAIN hits :
       hits[i].velocity = hits[j].velocity /\ hits[i].angle # hits[j].angle

\* the swept velocity v10 (tenths) hits at the angle of h and rounds to the
\* velocity of h
SweptHit(h, v10) ==
  /\ RoundVelocity(v10) = h.velocity
  /\ simulate_trajectory(v10, 2 * h.angle, target_px[1].v, target_px[2].v, wind_strength)

\* C14: the Vec of the velocity enumeration holds no two equal (velocity,
\* angle) pairs at all, adjacent or not, while it is built and when it is
\* returned; the rounded velocity never decreases along the whole sweep
\* 1.0, 1.1, ..., 100.0 of the code.
C14_NoDuplicatesAtAll ==
  mode = "VELOCITY" =>
    /\ \A i, j \in DOMAIN hits : i # j => hits[i] # hits[j]
    /\ spc = "returned" =>
         \A v10 \in 10..999 : RoundVelocity(v10) <= RoundVelocity(v10 + 1)

\* the velocity enumeration has returned a Solution whose rounded velocity
\* was hit by several swept velocities, and Solutions of one velocity at
\* different angles that are not neighbours in the emission order
C14_Witness ==
  /\ mode = "VELOCITY"
  /\ spc = "returned"
  /\ \E i \in DOMAIN hits :
       \E v10, w10 \in 10..(10 * MaxVelocity) :
         v10 + 1 < w10 /\ SweptHit(hits[i], v10) /\ SweptHit(hits[i], w10)
  /\ \E i, j \in DOMAIN hits :
       hits[i].velocity = hits[j].velocity /\ hits[i].angle + 1 < hits[j].angle
(***************************************************************************)
(* Properties of the control loop (Spec).                                  *)
(***************************************************************************)
Positive(rect) == rect.width > 0 /\ rect.height > 0

\* C4: no search is invoked with a displacement computed from an extent of
\* width or height zero: a cached extent has positive width and height, an
\* extent query of Cache that fails or yields a zero dimension leaves no
\* cached extent, and the displacement of every invoked search is finite.
C4_ValidExtent ==
  /\ cached_rect # None => Positive(cached_rect[1])
  /\ (output.key = 7 /\ output.rect # None) =>
       IF Positive(output.rect[1])
       THEN cached_rect = output.rect
       ELSE cached_rect = None
  /\ output.search # None =>
       /\ Positive(output.search[1].rect)
       /\ is_finite(output.search[1].target_pos_pixels[1])
       /\ is_finite(output.search[1].target_pos_pixels[2])

\* Cache has just queried an extent of height zero, with source and target
\* set, and no extent is cached
C4_Witness ==
  /\ output.key = 7
  /\ output.rect = Some(Rect(884, 0))
  /\ source # None
  /\ target # None
  /\ cached_rect = None

\* C5: when Calculate has a rising edge while source, target or cached
\* extent is not set, no search is invoked on that tick and mode, source,
\* target, wind and cached extent are unchanged; a search is invoked only
\* when all three are set.
C5_CalculateNeedsAll ==
  [][(pc = 4 /\ key_down[4] /\ ~vk_state[4]) =>
       /\ (source = None \/ target = None \/ cached_rect = None) =>
            /\ output'.search = None
            /\ output'.what = "warn"
            /\ appVars' = appVars
       /\ output'.search # None =>
            source # None /\ target # None /\ cached_rect # None]_vars

\* Calculate has just fired with source and target set but no cached
\* extent, and has only warned
C5_Witness ==
  /\ output.key = 4
  /\ output.what = "warn"
  /\ source # None
  /\ target # None
  /\ cached_rect = None

\* C6: the action of key k fires on a tick exactly when k is sampled pressed
\* and its stored previous state is unpressed; the stored state of k is the
\* previous tick's sample of k (it is set to the sample by k's handler and
\* by nothing else), so a key held over consecutive ticks fires once and not
\* again until it is sampled released.
C6_EdgeTriggered ==
  [][/\ pc = 0 => vk_state = key_down
     /\ \A k \in Keys :
          IF pc = k
          THEN /\ output'.key = k
               /\ (output'.what # "none") <=> (key_down[k] /\ ~vk_state[k])
               /\ vk_state'[k] = key_down[k]
          ELSE vk_state'[k] = vk_state[k]]_vars

\* key 1 was pressed on the previous tick and is still pressed: its handler
\* has run and has not fired
C6_Witness ==
  /\ output.key = 1
  /\ output.what = "none"
  /\ key_down[1]
  /\ vk_state[1]
  /\ source # None

\* C10: the stored wind strength is always within [-100, 100], and so is
\* the wind of every search that is invoked.
C10_WindInRange ==
  /\ -100 <= current_wind_strength /\ current_wind_strength <= 100
  /\ output.search # None =>
       /\ -100 <= output.search[1].wind_strength
       /\ output.search[1].wind_strength <= 100
       /\ output.search[1].wind_strength = current_wind_strength

\* the wind prompt has rejected a line and then returned -100
C10_Witness ==
  /\ output.key = 3
  /\ output.what = "wind"
  /\ output.lines >= 2
  /\ current_wind_strength = -100
(***************************************************************************)
(* Properties of print_hits (AggSpec, BucketSpec).                         *)
(***************************************************************************)
\* the number of Solutions of s in the bucket `key`
InBucket(s, key) == Cardinality({i \in DOMAIN s : Category(s[i].angle) = key})

Smaller(a, b) == IF a < b THEN a ELSE b

\* (angle, velocity) of a is not behind that of b
AngleVelocityLeq(a, b) ==
  a.angle < b.angle \/ (a.angle = b.angle /\ a.velocity <= b.velocity)

\* C7: every bucket list has at most 5 entries, is sorted ascending by
\* velocity and consists of the lowest-velocity entries among the input
\* Solutions of that bucket key; every input Solution's key is present, and
\* the buckets are in ascending key order.
C7_Buckets ==
  spc = "printed" =>
    /\ {categories[i].category : i \in DOMAIN categories}
         = {Category(hits[j].angle) : j \in DOMAIN hits}
    /\ \A i, j \in DOMAIN categories :
         i < j => categories[i].category < categories[j].category
    /\ \A i \in DOMAIN categories :
         LET key == categories[i].category
             list == categories[i].hits
         IN /\ Len(list) = Smaller(5, InBucket(hits, key))
            /\ \A m \in 1..(Len(list) - 1) : list[m].velocity <= list[m + 1].velocity
            /\ \A m \in DOMAIN list :
                 /\ Category(list[m].angle) = key
                 /\ Count(list, list[m]) <= Count(hits, list[m])
            /\ \A j \in DOMAIN hits :
                 (Category(hits[j].angle) = key /\ Count(list, hits[j]) < Count(hits, hits[j]))
                   => \A m \in DOMAIN list : list[m].velocity <= hits[j].velocity

\* printed: a bucket of more than 5 input Solutions, given in an order that
\* is not ascending in velocity, was cut to 5, and there is a second bucket
C7_Witness ==
  /\ spc = "printed"
  /\ Len(categories) >= 2
  /\ \E i \in DOMAIN categories :
       /\ InBucket(hits, categories[i].category) > 5
       /\ Len(categories[i].hits) = 5
       /\ categories[i].hits[5].velocity < 3
  /\ hits[1].velocity = 3

\* C8: the "best" list has min(5, size of the set) entries and is the
\* beginning of the set sorted ascending by angle, ties by ascending
\* velocity, whatever the order the search delivered the set in.
C8_Best ==
  spc = "printed" =>
    /\ Len(best) = Smaller(5, Len(hits))
    /\ \A m \in 1..(Len(best) - 1) : AngleVelocityLeq(best[m], best[m + 1])
    /\ \A m \in DOMAIN best : Count(best, best[m]) <= Count(hits, best[m])
    /\ \A j \in DOMAIN hits :
         Count(best, hits[j]) < Count(hits, hits[j])
           => \A m \in DOMAIN best : AngleVelocityLeq(best[m], hits[j])

\* printed: more than 5 Solutions were delivered in an order that is not
\* ascending by angle, and the best list begins with the lowest angle
C8_Witness ==
  /\ spc = "printed"
  /\ Len(hits) > 5
  /\ hits[1].angle = 15
  /\ hits[Len(hits)].angle = -9
  /\ best[1].angle = -9

\* C9: the bucket key of an angle in [-90, 90] is the multiple of 10 with
\* key <= angle < key + 10 (the floor, also for negative angles): 15 -> 10,
\* -5 -> -10, -15 -> -20, 0 -> 0, -10 -> -10, -90 -> -90, 90 -> 90.
C9_BucketKey ==
  spc = "printed" =>
    \A i \in DOMAIN categories :
      LET key == categories[i].category
      IN \A m \in DOMAIN categories[i].hits :
           LET angle == categories[i].hits[m].angle
           IN /\ \E q \in -9..9 : key = 10 * q
              /\ key <= angle /\ angle < key + 10
              /\ angle = 15 => key = 10
              /\ angle = -5 => key = -10
              /\ angle = -15 => key = -20
              /\ angle = 0 => key = 0
              /\ angle = -10 => key = -10
              /\ angle = -90 => key = -90
              /\ angle = 90 => key = 90

\* printed: the Solution of angle -5 is in the bucket -10
C9_Witness ==
  /\ spc = "printed"
  /\ hits[1].angle = -5
  /\ categories[1].category = -10
  /\ categories[1].hits = hits
\* the handler of key k is about to run and k has a rising edge on this tick
EdgeAt(k) == pc = k /\ key_down[k] /\ ~vk_state[k]

\* C13: an application-state variable changes only in the handler of one of
\* its own commands, on a rising edge, and a command leaves every other
\* variable unchanged: 1 changes only source, 2 only target, 3 only wind,
\* 4 nothing, 5 resets source, target and wind and leaves extent and mode,
\* 6 toggles only the mode, 7 changes only the cached extent; without a
\* rising edge no application state changes.
C13_FrameEffects ==
  [][/\ source' # source => EdgeAt(1) \/ EdgeAt(5)
     /\ target' # target => EdgeAt(2) \/ EdgeAt(5)
     /\ current_wind_strength' # current_wind_strength => EdgeAt(3) \/ EdgeAt(5)
     /\ mode' # mode => EdgeAt(6)
     /\ cached_rect' # cached_rect => EdgeAt(7)
     /\ (\A k \in Keys : ~EdgeAt(k)) => appVars' = appVars
     /\ EdgeAt(1) => source' # None
     /\ EdgeAt(2) => target' # None
     /\ EdgeAt(4) => appVars' = appVars
     /\ EdgeAt(5) =>
          /\ source' = None /\ target' = None /\ current_wind_strength' = 0
          /\ mode' = mode /\ cached_rect' = cached_rect
     /\ EdgeAt(6) => mode' \in Modes \ {mode}]_vars

\* Clear has just fired: the points are gone, the wind is 0, and the cached
\* extent and the switched mode are still there
C13_Witness ==
  /\ output.key = 5
  /\ output.what = "cleared"
  /\ source = None
  /\ target = None
  /\ current_wind_strength = 0
  /\ cached_rect # None
  /\ mode = "ANGLE"

\* the search Calculate invokes from the application state as it is now
SearchFromNow ==
  SearchCall(translate_target_position_relativ_to_origin(
               cached_rect[1], source[1], target[1]),
             current_wind_strength, mode, cached_rect[1])

\* C15: the seven keys are sampled once, at the start of a tick, and the
\* commands are then handled in the order 1..7.  A Calculate with a rising
\* edge sees a Set-source, Set-target or Set-wind of the same tick already
\* applied (their handlers have run and what they stored is not touched
\* before handler 4 reads it), and it searches with source, target, wind
\* and cached extent untouched by a Clear or Cache of the same tick, whose
\* handlers run after it.
C15_TickOrder ==
  [][/\ pc' = (pc + 1) % 8
     /\ pc # 0 => key_down' = key_down
     /\ \A k \in Keys : (pc # 0 /\ k < pc) => vk_state[k] = key_down[k]
     /\ \A k \in Keys : (pc # 0 /\ k > pc) => vk_state'[k] = vk_state[k]
     /\ EdgeAt(1) => source' \in {Some(p) : p \in MousePositions}
     /\ EdgeAt(2) => target' \in {Some(p) : p \in MousePositions}
     /\ EdgeAt(3) => \E lines \in PromptInputs :
                       current_wind_strength' = get_wind_input(lines)
     /\ pc \in {2, 3} => source' = source
     /\ pc = 3 => target' = target
     /\ (EdgeAt(4) /\ source # None /\ target # None /\ cached_rect # None) =>
          /\ output'.search = Some(SearchFromNow)
          /\ appVars' = appVars
     /\ (pc = 5 /\ output.search # None) =>
          /\ output.search = Some(SearchFromNow)
          /\ EdgeAt(5) => source' = None /\ target' = None /\ current_wind_strength' = 0
     /\ pc \in {5, 6} => cached_rect' = cached_rect
     /\ EdgeAt(7) => cached_rect' \in {None} \cup {Some(r) : r \in WindowRects}]_vars

\* Calculate has just searched with a wind that is not 0, on a tick on which
\* Clear has a rising edge as well and is handled next
C15_Witness ==
  /\ pc = 5
  /\ output.key = 4
  /\ output.search # None
  /\ output.search[1].wind_strength # 0
  /\ output.search = Some(SearchFromNow)
  /\ key_down[5]
  /\ ~vk_state[5]

(***************************************************************************)
(* Properties of the translation (TranslateSpec).                          *)
(***************************************************************************)
\* the value a (hundredths of a pixel) is n * base / dim, to the hundredth
\* of a pixel the values are kept at, and exactly when the scale factor
\* base / dim is itself a number of hundredths
IsScaled(a, n, base, dim) ==
  /\ is_finite(a)
  /\ Abs(a.v * dim - n * base * 100) < dim
  /\ (base * 100) % dim = 0 => a.v * dim = n * base * 100

\* C11: for an extent of positive width and height, translate returns
\* ((to.x - from.x) * 1768 / width, (from.y - to.y) * 992 / height); it
\* returns (0, 0) when from = to, and (200, -200) for the extent 884x496
\* with from = (0, 0) and to = (100, 100).
C11_Translate ==
  (spc = "translated" /\ Positive(cached_rect[1])) =>
    LET rect == cached_rect[1]
        from == source[1]
        to == target[1]
    IN /\ IsScaled(target_px[1], to.x - from.x, 1768, rect.width)
       /\ IsScaled(target_px[2], from.y - to.y, 992, rect.height)
       /\ from = to => target_px = <<Fin(0), Fin(0)>>
       /\ (rect = Rect(884, 496) /\ from = Cursor(0, 0) /\ to = Cursor(100, 100))
            => target_px = <<Fin(20000), Fin(-20000)>>

\* translated: extent 884x496, from (0, 0), to (100, 100), result (200, -200)
C11_Witness ==
  /\ spc = "translated"
  /\ cached_rect = Some(Rect(884, 496))
  /\ source = Some(Cursor(0, 0))
  /\ target = Some(Cursor(100, 100))
  /\ target_px = <<Fin(20000), Fin(-20000)>>
====
